---- MODULE Spec2Model ----
(***************************************************************************)
(* Model of blockworlds/implicit.py: the soft_if_then blending kernel, the *)
(* LogPrior distributions, the GeoEvent classes and the GeoHistory chain.  *)
(*                                                                         *)
(* Numbers.  Parameter values and coordinates are integers, small enough   *)
(* that the float operations on them are exact.  Densities and blends are  *)
(* rationals [n, d]; the float operations of soft_if_then round them to    *)
(* the nearest value of FloatBits significant bits, ties to even, as IEEE  *)
(* arithmetic does (with 53 bits; the model keeps fewer, to stay within    *)
(* TLC's integers).  Log-densities are fixed-point integers in units of    *)
(* 1/1000 nat with an explicit value for -inf.  Angles are kept on         *)
(* multiples of 90 degrees, where sin and cos are taken exact, and         *)
(* elevations at 0, so that no cross product degenerates.                  *)
(***************************************************************************)
EXTENDS Integers, Sequences, FiniteSets, TLC

(***************************************************************************)
(* Bounds of the model.                                                    *)
(***************************************************************************)
MaxEvents == 3    \* number of events appended, over all histories
MaxExtra == 1     \* how many entries a pvec may have beyond the chain's total
FloatBits == 11   \* significant bits of a float

None == 0

(***************************************************************************)
(* Generic helpers.                                                        *)
(***************************************************************************)
Abs(x) == IF x < 0 THEN -x ELSE x

Min(a, b) == IF a < b THEN a ELSE b

Range(s) == {s[i] : i \in 1..Len(s)}

RECURSIVE GCD(_, _)
GCD(a, b) == IF b = 0 THEN a ELSE GCD(b, a % b)

RECURSIVE SeqSum(_)
SeqSum(s) == IF s = <<>> THEN 0 ELSE s[1] + SeqSum(Tail(s))

RECURSIVE Flatten(_)
Flatten(ss) == IF ss = <<>> THEN <<>> ELSE ss[1] \o Flatten(Tail(ss))

\* the elements of a sequence of strings or integers as a bag (element -> count)
Count(s, x) == Cardinality({i \in 1..Len(s) : s[i] = x})

(***************************************************************************)
(* Exact rationals, standing for the float arrays' elements.               *)
(***************************************************************************)
Rat(n, d) ==
    LET g == GCD(Abs(n), Abs(d))
        sgn == IF d < 0 THEN -1 ELSE 1
    IN  [n |-> (sgn * n) \div g, d |-> (sgn * d) \div g]

RInt(i) == [n |-> i, d |-> 1]
RAdd(a, b) == Rat(a.n * b.d + b.n * a.d, a.d * b.d)
RSub(a, b) == Rat(a.n * b.d - b.n * a.d, a.d * b.d)
RMul(a, b) == Rat(a.n * b.n, a.d * b.d)
RDiv(a, b) == Rat(a.n * b.d, a.d * b.n)
RLess(a, b) == a.n * b.d < b.n * a.d
RLeq(a, b) == a.n * b.d <= b.n * a.d
RHalf == [n |-> 1, d |-> 2]

RECURSIVE Pow2(_)
Pow2(k) == IF k = 0 THEN 1 ELSE 2 * Pow2(k - 1)

\* n/d > 0 rounded to FloatBits significant bits, ties to even; up/down
\* carry the power of two the mantissa is scaled back by
RECURSIVE FlPos(_, _, _, _)
FlPos(n, d, up, down) ==
    IF n >= Pow2(FloatBits) * d THEN FlPos(n, 2 * d, 2 * up, down)
    ELSE IF n < Pow2(FloatBits - 1) * d THEN FlPos(2 * n, d, up, 2 * down)
    ELSE LET q == n \div d
             r == n % d
             m == IF 2 * r > d THEN q + 1
                  ELSE IF 2 * r = d THEN q + (q % 2)
                  ELSE q
         IN  Rat(m * up, down)

\* the float nearest to the rational x
Fl(x) ==
    IF x.n = 0 THEN x
    ELSE IF x.n > 0 THEN FlPos(x.n, x.d, 1, 1)
    ELSE LET y == FlPos(-x.n, x.d, 1, 1) IN [n |-> -y.n, d |-> y.d]

\* the float operations + - * /
FAdd(a, b) == Fl(RAdd(a, b))
FSub(a, b) == Fl(RSub(a, b))
FMul(a, b) == Fl(RMul(a, b))
FDiv(a, b) == Fl(RDiv(a, b))

(***************************************************************************)
(* Vectors of three integers.                                              *)
(***************************************************************************)
VAdd(a, b) == <<a[1] + b[1], a[2] + b[2], a[3] + b[3]>>
VSub(a, b) == <<a[1] - b[1], a[2] - b[2], a[3] - b[3]>>
VScale(k, a) == <<k * a[1], k * a[2], k * a[3]>>
Dot(a, b) == a[1] * b[1] + a[2] * b[2] + a[3] * b[3]
Cross(a, b) == <<a[2] * b[3] - a[3] * b[2],
                 a[3] * b[1] - a[1] * b[3],
                 a[1] * b[2] - a[2] * b[1]>>

\* sin and cos of an angle in degrees, exact on multiples of 90
SinDeg(a) == CASE a % 360 = 0 -> 0
               [] a % 360 = 90 -> 1
               [] a % 360 = 180 -> 0
               [] a % 360 = 270 -> -1

CosDeg(a) == SinDeg(a + 90)

\* l2norm of an integer vector whose norm is an integer
l2norm(v) == CHOOSE k \in 0..(Abs(v[1]) + Abs(v[2]) + Abs(v[3])) : k * k = Dot(v, v)

sph2xyz(th, ph) == <<CosDeg(th) * CosDeg(ph), CosDeg(th) * SinDeg(ph), SinDeg(th)>>

(***************************************************************************)
(* soft_if_then, element by element.  d is a sequence of integers, y0 and  *)
(* y1 are sequences of floats of the same length, h is an integer.         *)
(* The masks "d < -0.5*h" and "d > +0.5*h" are compared doubled.           *)
(***************************************************************************)
\* 0.5*(y0+y1) - (y0-y1)*d/h, in Python's order of evaluation
soft_if_then_linear(di, y0i, y1i, h) ==
    FSub(FMul(RHalf, FAdd(y0i, y1i)), FDiv(FMul(FSub(y0i, y1i), RInt(di)), RInt(h)))

soft_if_then_elem(di, y0i, y1i, h) ==
    IF 2 * di > h THEN y1i
    ELSE IF 2 * di < -h THEN y0i
    ELSE soft_if_then_linear(di, y0i, y1i, h)

soft_if_then(d, y0, y1, h) ==
    [i \in 1..Len(d) |-> soft_if_then_elem(d[i], y0[i], y1[i], h)]

(***************************************************************************)
(* Log-densities: fixed point, 1/1000 nat, with -inf.                      *)
(***************************************************************************)
NegInf == [neginf |-> TRUE, val |-> 0]
Fin(x) == [neginf |-> FALSE, val |-> x]
LAdd(a, b) == IF a.neginf \/ b.neginf THEN NegInf ELSE Fin(a.val + b.val)

\* 1000 * ln(x), rounded, for the arguments the model's distributions use
LnMilli(x) == CASE x = 1 -> 0
                [] x = 5 -> 1609
                [] x = 10 -> 2303
                [] x = 90 -> 4500
                [] x = 100 -> 4605
                [] x = 200 -> 5298
                [] x = 360 -> 5886

\* 1000 * ln(kappa / (4 pi sinh kappa)): lognorm of vMFDist.__call__
VmfLogNormMilli(kappa) == CASE kappa = 1 -> -2693
                            [] kappa = 100 -> -97233

(***************************************************************************)
(* The LogPrior distributions.  A distribution object is a record of its   *)
(* class and the attributes LogPrior.__init__ set from the keywords.       *)
(***************************************************************************)
UniGaussianDist(mean, std) == [kind |-> "UniGaussianDist", a |-> mean, b |-> std, k |-> 0]
UniformDist(mean, width) == [kind |-> "UniformDist", a |-> mean, b |-> width, k |-> 0]
vMFDist(th0, ph0, kappa) == [kind |-> "vMFDist", a |-> th0, b |-> ph0, k |-> kappa]

Ndim(dist) == IF dist.kind = "vMFDist" THEN 2 ELSE 1

\* UniGaussianDist.__call__(x)
UniGaussianDist_call(dist, x) ==
    LET ln2pi == 1838
        lognorm == -((ln2pi + 2 * LnMilli(dist.b)) \div 2)
    IN  Fin(-((500 * (x - dist.a) * (x - dist.a)) \div (dist.b * dist.b)) + lognorm)

\* UniformDist.__call__ without its test of the support
UniformDist_call_flat(dist, x) == Fin(-LnMilli(dist.b))

\* UniformDist.__call__(x): -inf if |x - mean| > 0.5*width
UniformDist_call(dist, x) ==
    LET lognorm == -LnMilli(dist.b)
    IN  IF 2 * Abs(x - dist.a) > dist.b THEN NegInf ELSE Fin(lognorm)

\* vMFDist.__call__(th, ph)
vMFDist_call(dist, th, ph) ==
    LET gamma == sph2xyz(dist.a, dist.b)
        x == sph2xyz(th, ph)
    IN  Fin(VmfLogNormMilli(dist.k) + 1000 * dist.k * Dot(gamma, x))

\* dist(*pars): pars is the sequence of arguments
Dist_call(dist, pars) ==
    CASE dist.kind = "UniGaussianDist" -> UniGaussianDist_call(dist, pars[1])
      [] dist.kind = "UniformDist" -> UniformDist_call(dist, pars[1])
      [] dist.kind = "vMFDist" -> vMFDist_call(dist, pars[1], pars[2])

(***************************************************************************)
(* dist.sample(size=1): the set of values a call may return, each a        *)
(* sequence as zip() consumes it.  The random generator is bounded to two  *)
(* outcomes per distribution: the mean and one deviate.                    *)
(***************************************************************************)
UniGaussianDist_sample(dist) == {<<dist.a>>, <<dist.a + dist.b>>}

\* UniformDist.sample drawing from an interval beside the support
UniformDist_sample_beside(dist) == {<<dist.a + dist.b>>}

\* np.random.uniform(mean - hw, mean + hw): the half-open interval [low, high)
UniformDist_sample(dist) == {<<dist.a - dist.b \div 2>>, <<dist.a>>}

\* the mode, and the mode turned by a quarter circle in azimuth
vMFDist_sample(dist) == {<<dist.a, dist.b>>, <<dist.a, dist.b + 90>>}

Dist_sample(dist) ==
    CASE dist.kind = "UniGaussianDist" -> UniGaussianDist_sample(dist)
      [] dist.kind = "UniformDist" -> UniformDist_sample(dist)
      [] dist.kind = "vMFDist" -> vMFDist_sample(dist)

(***************************************************************************)
(* The shapes of what dist.sample(size) returns.  A numpy shape is the     *)
(* sequence of the axis lengths, <<>> for a scalar.  The result is the     *)
(* sequence of the shapes zip() gets by iterating the returned value: the  *)
(* sub-arrays along the first axis of an array, the members of a tuple.    *)
(***************************************************************************)
Scalar == <<>>

ArrayElems(shp) == [i \in 1..Head(shp) |-> Tail(shp)]

\* numpy broadcasting of two one-axis shapes, one of them of length 1
Broadcast(a, b) == IF a = <<1>> THEN b ELSE a

\* np.random.normal(self.mean, self.std, size=1): the size argument is unused
UniGaussianDist_sample_shape(size) == ArrayElems(<<1>>)

\* np.random.uniform(self.mean - hw, self.mean + hw, size=size)
UniformDist_sample_shape(size) == ArrayElems(<<size>>)

\* vMFDist.sample keeping thrand and phrand as arrays of the shape of xi
vMFDist_sample_shape_keepaxis(size) == << <<size>>, <<size>> >>

\* vMFDist.sample: xi, W, V, U have the shape (size,); vrand is W*gamma+...
\* with gamma, v0, v1 of shape (3,); thrand and phrand come from vrand[2],
\* vrand[1], vrand[0]; the return value is the tuple (thrand, phrand)
vMFDist_sample_shape(size) ==
    LET xi == <<size>>
        vrand == Broadcast(xi, <<3>>)
        thrand == Tail(vrand)
        phrand == Tail(vrand)
    IN  <<thrand, phrand>>

Dist_sample_shape(dist, size) ==
    CASE dist.kind = "UniGaussianDist" -> UniGaussianDist_sample_shape(size)
      [] dist.kind = "UniformDist" -> UniformDist_sample_shape(size)
      [] dist.kind = "vMFDist" -> vMFDist_sample_shape(size)

(***************************************************************************)
(* The event classes.  Basement is one of the GeoFunc classes of the older *)
(* API: an object that is no GeoEvent.                                     *)
(***************************************************************************)
EventClasses == {"BasementEvent", "StratLayerEvent", "PlanarFaultEvent", "FoldEvent"}
OtherClasses == {"Basement"}

IsGeoEvent(c) == c \in EventClasses

\* the class attribute _pars
_pars(c) ==
    CASE c = "BasementEvent" -> <<"density">>
      [] c = "StratLayerEvent" -> <<"thickness", "density">>
      [] c = "PlanarFaultEvent" -> <<"x0", "y0", "nth", "nph", "s">>
      [] c = "FoldEvent" -> <<"nth", "nph", "pitch", "phase", "wavelength", "amplitude">>
      [] OTHER -> <<>>

\* len(name) and name[0], name[1] of the keyword names the model uses
NameLen(name) ==
    CASE name = "s" -> 1
      [] name \in {"x0", "y0"} -> 2
      [] name \in {"nth", "nph"} -> 3
      [] name \in {"pitch", "phase", "bogus"} -> 5
      [] name = "density" -> 7
      [] name \in {"thickness", "amplitude"} -> 9
      [] name = "wavelength" -> 10

FirstChar(name) == IF name = "x0" THEN "x" ELSE "y"
SecondChar(name) == "0"

\* a prior as the constructor receives it: p[:-1] and p[-1]
Prior(names, dist) == [names |-> names, dist |-> dist]

\* sorted(a) == sorted(b)
SortedEqual(a, b) ==
    /\ Len(a) = Len(b)
    /\ \A x \in Range(a) \cup Range(b) : Count(a, x) = Count(b, x)

(***************************************************************************)
(* GeoEvent.__init__, the check of the priors: the first error raised, or  *)
(* "ok".                                                                   *)
(***************************************************************************)
RECURSIVE check_priors(_, _, _)
check_priors(c, ps, ppars) ==
    IF ps = <<>>
    THEN IF SortedEqual(ppars, _pars(c)) THEN "ok" ELSE "ValueError: exactly one prior"
    ELSE LET p == Head(ps)
         IN  IF \E i \in 1..Len(p.names) : p.names[i] \notin Range(_pars(c))
             THEN "ValueError: not an attribute"
             ELSE IF Len(p.names) # Ndim(p.dist)
             THEN "ValueError: dimensional"
             ELSE check_priors(c, Tail(ps), ppars \o p.names)

\* setattr over zip(parnames, vals)
RECURSIVE zip_setattr(_, _, _)
zip_setattr(attrs, names, vals) ==
    IF names = <<>> \/ vals = <<>> THEN attrs
    ELSE zip_setattr((Head(names) :> Head(vals)) @@ attrs, Tail(names), Tail(vals))

\* GeoEvent.set_to_prior_draw: the attribute maps it may leave
RECURSIVE GeoEvent_set_to_prior_draw(_, _)
GeoEvent_set_to_prior_draw(attrs, ps) ==
    IF ps = <<>> THEN {attrs}
    ELSE UNION {GeoEvent_set_to_prior_draw(zip_setattr(attrs, Head(ps).names, vals), Tail(ps)) :
                    vals \in Dist_sample(Head(ps).dist)}

\* GeoEvent.set_to_prior_draw: the shapes of the attributes it leaves
RECURSIVE GeoEvent_set_to_prior_draw_shape(_, _)
GeoEvent_set_to_prior_draw_shape(shp, ps) ==
    IF ps = <<>> THEN shp
    ELSE GeoEvent_set_to_prior_draw_shape(
             zip_setattr(shp, Head(ps).names, Dist_sample_shape(Head(ps).dist, 1)), Tail(ps))

(***************************************************************************)
(* GeoEvent.set_kw_attrs.  "for key, val in kwargs" iterates the keys of   *)
(* the dict and unpacks each key string into two names: a key that is not  *)
(* two characters long raises ValueError; a two-character key is split     *)
(* into its characters, and when the first is no parameter the lookup of   *)
(* self._hypars, which no class defines, raises AttributeError.            *)
(* kwargs is the sequence of the dict's items, in insertion order.         *)
(***************************************************************************)
RECURSIVE GeoEvent_set_kw_attrs(_, _, _)
GeoEvent_set_kw_attrs(c, attrs, kwargs) ==
    IF kwargs = <<>> THEN [status |-> "ok", attrs |-> attrs]
    ELSE LET kw == Head(kwargs).key
         IN  IF NameLen(kw) # 2
             THEN [status |-> "ValueError: unpack", attrs |-> attrs]
             ELSE IF FirstChar(kw) \in Range(_pars(c))
             THEN GeoEvent_set_kw_attrs(c, (FirstChar(kw) :> SecondChar(kw)) @@ attrs,
                                        Tail(kwargs))
             ELSE [status |-> "AttributeError: _hypars", attrs |-> attrs]

NoAttrs == [n \in {} |-> 0]

\* GeoEvent.__init__: the outcomes of cls(priors, **kwargs)
GeoEvent_init(c, ps, kwargs) ==
    LET chk == check_priors(c, ps, <<>>)
    IN  IF chk # "ok" THEN {[status |-> chk, attrs |-> NoAttrs]}
        ELSE {GeoEvent_set_kw_attrs(c, drawn, kwargs) :
                  drawn \in GeoEvent_set_to_prior_draw(NoAttrs, ps)}

(***************************************************************************)
(* The state.                                                              *)
(*   cls[e]             class of object e ("absent": not constructed)      *)
(*   priors[e]          e._priors                                          *)
(*   pars[e]            the parameter attributes of e, name -> value       *)
(*   previous_event[e]  e.previous_event, None or an object                *)
(*   shape[e]           the numpy shapes of the parameter attributes of e  *)
(*   event_list[h]      the event_list of history h                        *)
(*   ret                the last call: what was called and how it ended    *)
(***************************************************************************)
VARIABLES cls, priors, pars, shape, previous_event, event_list, ret

vars == <<cls, priors, pars, shape, previous_event, event_list, ret>>

Objects == DOMAIN cls
Hists == DOMAIN event_list
Events == {e \in Objects : IsGeoEvent(cls[e])}

\* e.Npars, set by GeoEvent.__init__
Npars(e) == Len(_pars(cls[e]))

Call(op, status, h, e, arg, val) ==
    [op |-> op, status |-> status, h |-> h, e |-> e, arg |-> arg, val |-> val]

(***************************************************************************)
(* rockprops.  r is a sequence of points, h the transition scale.  The     *)
(* result is [status, val]; an exception of the predecessor propagates.    *)
(* A chain of back-references that returns to an event never ends: Python  *)
(* raises RecursionError once the depth passes its limit, the model once   *)
(* the depth passes the number of objects.                                 *)
(***************************************************************************)
Raise(exc) == [status |-> exc, val |-> <<>>]
Ok(val) == [status |-> "ok", val |-> val]

Ones(r, x) == [i \in 1..Len(r) |-> RInt(x)]
Shift(r, delta) == [i \in 1..Len(r) |-> VAdd(r[i], delta)]
VUnit(v) == LET k == l2norm(v) IN <<v[1] \div k, v[2] \div k, v[3] \div k>>

\* BasementEvent.rockprops
BasementEvent_rockprops(e, r, h) == Ok(Ones(r, pars[e]["density"]))

RECURSIVE GeoEvent_rockprops(_, _, _, _)

\* StratLayerEvent.rockprops
StratLayerEvent_rockprops(e, r, h, depth) ==
    IF previous_event[e] = None \/ ~IsGeoEvent(cls[previous_event[e]])
    THEN Raise("AssertionError")
    ELSE LET rp == Shift(r, <<0, 0, pars[e]["thickness"]>>)
             rho_up == Ones(r, pars[e]["density"])
             rho_down == GeoEvent_rockprops(previous_event[e], rp, h, depth + 1)
         IN  IF rho_down.status # "ok" THEN rho_down
             ELSE Ok(soft_if_then([i \in 1..Len(rp) |-> rp[i][3]], rho_down.val, rho_up, h))

\* PlanarFaultEvent.rockprops slipping by 100 whatever s is
PlanarFaultEvent_rockprops_slip(e, r, h, depth) ==
    IF previous_event[e] = None \/ ~IsGeoEvent(cls[previous_event[e]])
    THEN Raise("AssertionError")
    ELSE LET r0 == <<pars[e]["x0"], pars[e]["y0"], 0>>
             n == sph2xyz(pars[e]["nth"], pars[e]["nph"])
             v == Cross(Cross(<<0, 0, 1>>, n), n)
             rdelt == VScale(100, VUnit(v))
             g0 == GeoEvent_rockprops(previous_event[e], r, h, depth + 1)
             g1 == GeoEvent_rockprops(previous_event[e], Shift(r, rdelt), h, depth + 1)
         IN  IF g0.status # "ok" THEN g0
             ELSE IF g1.status # "ok" THEN g1
             ELSE Ok(soft_if_then([i \in 1..Len(r) |-> Dot(VSub(r[i], r0), n)],
                                  g0.val, g1.val, h))

\* PlanarFaultEvent.rockprops
PlanarFaultEvent_rockprops(e, r, h, depth) ==
    IF previous_event[e] = None \/ ~IsGeoEvent(cls[previous_event[e]])
    THEN Raise("AssertionError")
    ELSE LET r0 == <<pars[e]["x0"], pars[e]["y0"], 0>>
             n == sph2xyz(pars[e]["nth"], pars[e]["nph"])
             v == Cross(Cross(<<0, 0, 1>>, n), n)
             rdelt == VScale(pars[e]["s"], VUnit(v))
             g0 == GeoEvent_rockprops(previous_event[e], r, h, depth + 1)
             g1 == GeoEvent_rockprops(previous_event[e], Shift(r, rdelt), h, depth + 1)
         IN  IF g0.status # "ok" THEN g0
             ELSE IF g1.status # "ok" THEN g1
             ELSE Ok(soft_if_then([i \in 1..Len(r) |-> Dot(VSub(r[i], r0), n)],
                                  g0.val, g1.val, h))

\* FoldEvent.rockprops without its assertion: the call on None fails later
FoldEvent_rockprops_noassert(e, r, h, depth) ==
    IF previous_event[e] = None THEN Raise("AttributeError")
    ELSE GeoEvent_rockprops(previous_event[e], r, h, depth + 1)

\* FoldEvent.rockprops; the argument of the sine is kept in degrees
FoldEvent_rockprops(e, r, h, depth) ==
    IF previous_event[e] = None \/ ~IsGeoEvent(cls[previous_event[e]])
    THEN Raise("AssertionError")
    ELSE LET n == sph2xyz(pars[e]["nth"], pars[e]["nph"])
             v0 == VUnit(Cross(n, <<0, 0, 1>>))
             v1 == VUnit(Cross(v0, n))
             v == VAdd(VScale(SinDeg(pars[e]["pitch"]), v0),
                       VScale(CosDeg(pars[e]["pitch"]), v1))
             sinarg(i) == ((360 * Dot(r[i], n)) \div pars[e]["wavelength"]) + pars[e]["phase"]
             rdelt(i) == VScale(pars[e]["amplitude"] * SinDeg(sinarg(i)), v)
         IN  GeoEvent_rockprops(previous_event[e],
                                [i \in 1..Len(r) |-> VAdd(r[i], rdelt(i))], h, depth + 1)

\* event.rockprops(r, h), dispatched on the class of the event
GeoEvent_rockprops(e, r, h, depth) ==
    IF depth > Cardinality(Objects) THEN Raise("RecursionError")
    ELSE CASE cls[e] = "BasementEvent" -> BasementEvent_rockprops(e, r, h)
           [] cls[e] = "StratLayerEvent" -> StratLayerEvent_rockprops(e, r, h, depth)
           [] cls[e] = "PlanarFaultEvent" -> PlanarFaultEvent_rockprops(e, r, h, depth)
           [] cls[e] = "FoldEvent" -> FoldEvent_rockprops(e, r, h, depth)

\* the events whose rockprops a call of e.rockprops enters, in the order of
\* entry: a BasementEvent calls no other, the other classes their
\* previous_event (when the assertion lets them)
RECURSIVE rockprops_visits(_, _)
rockprops_visits(e, depth) ==
    IF depth > Cardinality(Objects) THEN <<>>
    ELSE IF cls[e] = "BasementEvent" \/ previous_event[e] = None
            \/ ~IsGeoEvent(cls[previous_event[e]])
    THEN <<e>>
    ELSE <<e>> \o rockprops_visits(previous_event[e], depth + 1)

(***************************************************************************)
(* GeoEvent: serialize, deserialize, log_prior.                            *)
(***************************************************************************)
\* GeoEvent.serialize: [getattr(self, attr) for attr in self._pars]
GeoEvent_serialize(e) == [i \in 1..Npars(e) |-> pars[e][_pars(cls[e])[i]]]

\* GeoEvent.deserialize(*args): setattr(self, self._pars[i], args[i])
RECURSIVE GeoEvent_deserialize(_, _, _)
GeoEvent_deserialize(attrs, names, args) ==
    IF args = <<>> THEN attrs
    ELSE GeoEvent_deserialize((Head(names) :> Head(args)) @@ attrs, Tail(names), Tail(args))

\* GeoEvent.log_prior: lP += dist(*pars) over the priors, from lP
RECURSIVE GeoEvent_log_prior(_, _, _)
GeoEvent_log_prior(e, ps, lP) ==
    IF ps = <<>> THEN lP
    ELSE LET p == Head(ps)
             args == [i \in 1..Len(p.names) |-> pars[e][p.names[i]]]
         IN  GeoEvent_log_prior(e, Tail(ps), LAdd(lP, Dist_call(p.dist, args)))

(***************************************************************************)
(* GeoHistory.                                                             *)
(***************************************************************************)
\* add_event accepting any GeoEvent as the first event
GeoHistory_add_event_any(h, e) ==
    IF IsGeoEvent(cls[e])
    THEN [status |-> "ok", list |-> Append(event_list[h], e),
          prev |-> IF Len(event_list[h]) = 0 THEN previous_event
                   ELSE [previous_event EXCEPT ![e] = event_list[h][Len(event_list[h])]]]
    ELSE [status |-> "AssertionError", list |-> event_list[h], prev |-> previous_event]

\* add_event appending without set_previous_event
GeoHistory_add_event_nolink(h, e) ==
    IF (Len(event_list[h]) = 0 /\ cls[e] = "BasementEvent")
           \/ (Len(event_list[h]) > 0 /\ IsGeoEvent(cls[e]))
    THEN [status |-> "ok", list |-> Append(event_list[h], e), prev |-> previous_event]
    ELSE [status |-> "AssertionError", list |-> event_list[h], prev |-> previous_event]

\* GeoHistory.add_event: the exception raised or "ok", and the chain and
\* the back-references it leaves
GeoHistory_add_event(h, e) ==
    IF Len(event_list[h]) = 0
    THEN IF cls[e] = "BasementEvent"
         THEN [status |-> "ok", list |-> Append(event_list[h], e), prev |-> previous_event]
         ELSE [status |-> "AssertionError", list |-> event_list[h], prev |-> previous_event]
    ELSE IF IsGeoEvent(cls[e])
         THEN [status |-> "ok", list |-> Append(event_list[h], e),
               prev |-> [previous_event EXCEPT ![e] = event_list[h][Len(event_list[h])]]]
         ELSE [status |-> "AssertionError", list |-> event_list[h], prev |-> previous_event]

\* GeoHistory.serialize: np.concatenate raises ValueError on an empty list
GeoHistory_serialize(h) ==
    IF event_list[h] = <<>> THEN Raise("ValueError")
    ELSE Ok(Flatten([k \in 1..Len(event_list[h]) |-> GeoEvent_serialize(event_list[h][k])]))

\* deserialize handing every event the head of the same vector
RECURSIVE GeoHistory_deserialize_nochop(_, _, _)
GeoHistory_deserialize_nochop(allpars, evs, pvec) ==
    IF evs = <<>> THEN allpars
    ELSE LET e == Head(evs)
             psub == SubSeq(pvec, 1, Min(Npars(e), Len(pvec)))
         IN  GeoHistory_deserialize_nochop(
                 [allpars EXCEPT ![e] = GeoEvent_deserialize(allpars[e], _pars(cls[e]), psub)],
                 Tail(evs), pvec)

\* GeoHistory.deserialize: psub, pvec = pvec[:Npars], pvec[Npars:] per event
RECURSIVE GeoHistory_deserialize(_, _, _)
GeoHistory_deserialize(allpars, evs, pvec) ==
    IF evs = <<>> THEN allpars
    ELSE LET e == Head(evs)
             k == Min(Npars(e), Len(pvec))
             psub == SubSeq(pvec, 1, k)
             rest == SubSeq(pvec, k + 1, Len(pvec))
         IN  GeoHistory_deserialize(
                 [allpars EXCEPT ![e] = GeoEvent_deserialize(allpars[e], _pars(cls[e]), psub)],
                 Tail(evs), rest)

\* GeoHistory.logprior: np.sum of the events' log_prior()
RECURSIVE GeoHistory_logprior(_, _)
GeoHistory_logprior(evs, acc) ==
    IF evs = <<>> THEN acc
    ELSE GeoHistory_logprior(Tail(evs),
                             LAdd(acc, GeoEvent_log_prior(Head(evs), priors[Head(evs)], Fin(0))))

\* GeoHistory.rockprops: self.event_list[-1].rockprops(r, h)
GeoHistory_rockprops(h, r, scale) ==
    IF event_list[h] = <<>> THEN Raise("IndexError")
    ELSE GeoEvent_rockprops(event_list[h][Len(event_list[h])], r, scale, 1)

\* GeoHistory.set_to_prior_draw: the parameter states it may leave
RECURSIVE GeoHistory_set_to_prior_draw(_, _)
GeoHistory_set_to_prior_draw(allpars, evs) ==
    IF evs = <<>> THEN {allpars}
    ELSE UNION {GeoHistory_set_to_prior_draw([allpars EXCEPT ![Head(evs)] = drawn], Tail(evs)) :
                    drawn \in GeoEvent_set_to_prior_draw(allpars[Head(evs)], priors[Head(evs)])}

\* GeoHistory.set_to_prior_draw: the shapes it leaves
RECURSIVE GeoHistory_set_to_prior_draw_shape(_, _)
GeoHistory_set_to_prior_draw_shape(allshp, evs) ==
    IF evs = <<>> THEN allshp
    ELSE GeoHistory_set_to_prior_draw_shape(
             [allshp EXCEPT ![Head(evs)] =
                  GeoEvent_set_to_prior_draw_shape(allshp[Head(evs)], priors[Head(evs)])],
             Tail(evs))

\* the shape of GeoEvent.serialize(): np.array of the list of the attribute
\* values, which needs values of one shape
GeoEvent_serialize_shape(e) ==
    LET shps == [i \in 1..Npars(e) |-> shape[e][_pars(cls[e])[i]]]
    IN  IF \A i \in 1..Npars(e) : shps[i] = shps[1]
        THEN Ok(<<Npars(e)>> \o shps[1])
        ELSE Raise("ValueError")

\* the shape of GeoHistory.serialize(): np.concatenate along the first
\* axis, which needs arrays that agree in the other axes
GeoHistory_serialize_shape(h) ==
    LET evs == event_list[h]
        shps == [k \in 1..Len(evs) |-> GeoEvent_serialize_shape(evs[k])]
    IN  IF \/ evs = <<>>
           \/ (\E k \in 1..Len(evs) : shps[k].status # "ok")
           \/ (\E k \in 1..Len(evs) : Tail(shps[k].val) # Tail(shps[1].val))
        THEN Raise("ValueError")
        ELSE Ok(<<SeqSum([k \in 1..Len(evs) |-> Head(shps[k].val)])>> \o Tail(shps[1].val))

(***************************************************************************)
(* Inputs.                                                                 *)
(***************************************************************************)
\* the values a caller writes to a parameter through deserialize
Dom(name) ==
    CASE name = "density" -> {30}
      [] name = "thickness" -> {100, 300}
      [] name = "x0" -> {100}
      [] name = "y0" -> {0}
      [] name = "nth" -> {0}
      [] name = "nph" -> {90}
      [] name = "s" -> {0}
      [] name = "pitch" -> {90}
      [] name = "phase" -> {-180}
      [] name = "wavelength" -> {400}
      [] name = "amplitude" -> {100}

\* the values of the entries of a pvec past the chain's parameters
ExtraVals == {7}

FlatNames(h) == Flatten([k \in 1..Len(event_list[h]) |-> _pars(cls[event_list[h][k]])])

RECURSIVE PVecsOfLen(_, _)
PVecsOfLen(names, k) ==
    IF k = 0 THEN {<<>>}
    ELSE {Append(v, x) : v \in PVecsOfLen(names, k - 1),
                         x \in IF k <= Len(names) THEN Dom(names[k]) ELSE ExtraVals}

\* the vectors deserialize is called with: those over Dom, short, exact and
\* long, and the history's own serialization
PVecs(h) ==
    UNION {PVecsOfLen(FlatNames(h), k) : k \in 0..(Len(FlatNames(h)) + MaxExtra)}
        \cup {GeoHistory_serialize(h).val}

NumAppended == SeqSum([h \in 1..Cardinality(Hists) |-> Len(event_list[h])])

\* the point sets and the scales rockprops is called with
Points == {<< <<0, 0, -200>>, <<0, 0, 0>>, <<0, 0, 200>>, <<100, 0, -100>>, <<0, 100, -300>> >>}
Scales == {10}

(***************************************************************************)
(* The calls.                                                              *)
(***************************************************************************)
add_event(h, e) ==
    /\ cls[e] # "absent"
    /\ NumAppended < MaxEvents
    /\ LET out == GeoHistory_add_event(h, e)
       IN  /\ event_list' = [event_list EXCEPT ![h] = out.list]
           /\ previous_event' = out.prev
           /\ ret' = Call("add_event", out.status, h, e, <<>>, <<>>)
    /\ UNCHANGED <<cls, priors, pars, shape>>

serialize(h) ==
    /\ LET out == GeoHistory_serialize(h)
       IN  ret' = Call("serialize", out.status, h, None, <<>>, out.val)
    /\ UNCHANGED <<cls, priors, pars, shape, previous_event, event_list>>

deserialize(h, pvec) ==
    /\ pars' = GeoHistory_deserialize(pars, event_list[h], pvec)
    /\ shape' = GeoHistory_deserialize(shape, event_list[h], ArrayElems(<<Len(pvec)>>))
    /\ ret' = Call("deserialize", "ok", h, None, pvec, <<>>)
    /\ UNCHANGED <<cls, priors, previous_event, event_list>>

\* logprior redrawing the parameters before it sums
logprior_redrawing(h) ==
    /\ pars' \in GeoHistory_set_to_prior_draw(pars, event_list[h])
    /\ ret' = Call("logprior", "ok", h, None, <<>>, GeoHistory_logprior(event_list[h], Fin(0)))
    /\ UNCHANGED <<cls, priors, shape, previous_event, event_list>>

logprior(h) ==
    /\ ret' = Call("logprior", "ok", h, None, <<>>, GeoHistory_logprior(event_list[h], Fin(0)))
    /\ UNCHANGED <<cls, priors, pars, shape, previous_event, event_list>>

set_to_prior_draw(h) ==
    /\ pars' \in GeoHistory_set_to_prior_draw(pars, event_list[h])
    /\ shape' = GeoHistory_set_to_prior_draw_shape(shape, event_list[h])
    /\ ret' = Call("set_to_prior_draw", "ok", h, None, <<>>, <<>>)
    /\ UNCHANGED <<cls, priors, previous_event, event_list>>

\* history.rockprops(r, scale)
rockprops(h, r, scale) ==
    /\ LET out == GeoHistory_rockprops(h, r, scale)
       IN  ret' = Call("rockprops", out.status, h, None, <<r, scale>>, out.val)
    /\ UNCHANGED <<cls, priors, pars, shape, previous_event, event_list>>

\* event.rockprops(r, scale), called on an event directly
event_rockprops(e, r, scale) ==
    /\ IsGeoEvent(cls[e])
    /\ LET out == GeoEvent_rockprops(e, r, scale, 1)
       IN  ret' = Call("event_rockprops", out.status, None, e, <<r, scale>>, out.val)
    /\ UNCHANGED <<cls, priors, pars, shape, previous_event, event_list>>

\* cls(priors, **kwargs), bound to the first free object
construct(c, ps, kwargs) ==
    /\ \E e \in Objects : cls[e] = "absent"
    /\ LET e == CHOOSE x \in Objects : cls[x] = "absent" /\ \A y \in Objects : cls[y] = "absent" => x <= y
       IN  \E out \in GeoEvent_init(c, ps, kwargs) :
               /\ ret' = Call("construct", out.status, None,
                              IF out.status = "ok" THEN e ELSE None,
                              [cls |-> c, priors |-> ps, kwargs |-> kwargs], <<>>)
               /\ IF out.status = "ok"
                  THEN /\ cls' = [cls EXCEPT ![e] = c]
                       /\ priors' = [priors EXCEPT ![e] = ps]
                       /\ pars' = [pars EXCEPT ![e] = out.attrs]
                       /\ shape' = [shape EXCEPT ![e] = GeoEvent_set_to_prior_draw_shape(NoAttrs, ps)]
                       /\ previous_event' = [previous_event EXCEPT ![e] = None]
                  ELSE UNCHANGED <<cls, priors, pars, shape, previous_event>>
    /\ UNCHANGED event_list

(***************************************************************************)
(* The priors the events of a history are built with, shaped as those of  *)
(* plot_subsurface_02: one distribution per parameter, a vMFDist for the   *)
(* pair of angles.  The means and widths are inputs in the model's integer *)
(* units; the thickness has a UniformDist, so that a value written by      *)
(* deserialize can lie outside a prior's support.                          *)
(***************************************************************************)
CanonPriors(c) ==
    CASE c = "BasementEvent" ->
             <<Prior(<<"density">>, UniGaussianDist(25, 5))>>
      [] c = "StratLayerEvent" ->
             <<Prior(<<"thickness">>, UniformDist(100, 200)),
               Prior(<<"density">>, UniGaussianDist(25, 5))>>
      [] c = "PlanarFaultEvent" ->
             <<Prior(<<"x0">>, UniGaussianDist(0, 100)),
               Prior(<<"y0">>, UniGaussianDist(0, 100)),
               Prior(<<"nth", "nph">>, vMFDist(0, 0, 100)),
               Prior(<<"s">>, UniformDist(0, 200))>>
      [] c = "FoldEvent" ->
             <<Prior(<<"nth", "nph">>, vMFDist(0, 0, 100)),
               Prior(<<"pitch">>, UniGaussianDist(0, 90)),
               Prior(<<"phase">>, UniformDist(0, 360)),
               Prior(<<"wavelength">>, UniGaussianDist(200, 200)),
               Prior(<<"amplitude">>, UniGaussianDist(0, 100))>>
      [] OTHER -> <<>>

\* what a run starts with: the classes of the objects 1, 2, ... and the
\* number of histories
Pools == {[classes |-> <<"BasementEvent", "BasementEvent", "StratLayerEvent", "Basement">>,
           nhist |-> 2],
          [classes |-> <<"BasementEvent", "StratLayerEvent", "PlanarFaultEvent">>,
           nhist |-> 1],
          [classes |-> <<"BasementEvent", "FoldEvent">>, nhist |-> 1]}

\* the attributes a constructed object of class c may hold
Constructed(c) ==
    IF IsGeoEvent(c)
    THEN {out.attrs : out \in GeoEvent_init(c, CanonPriors(c), <<>>)}
    ELSE {NoAttrs}

RECURSIVE PoolPars(_, _)
PoolPars(classes, k) ==
    IF k = 0 THEN {<<>>}
    ELSE {Append(f, a) : f \in PoolPars(classes, k - 1), a \in Constructed(classes[k])}

NoCall == Call("none", "ok", None, None, <<>>, <<>>)

\* the objects of a pool constructed, every history empty
Init ==
    \E pool \in Pools :
        /\ cls = pool.classes
        /\ priors = [e \in 1..Len(pool.classes) |-> CanonPriors(pool.classes[e])]
        /\ pars \in PoolPars(pool.classes, Len(pool.classes))
        /\ shape = [e \in 1..Len(pool.classes) |->
                       IF IsGeoEvent(pool.classes[e])
                       THEN GeoEvent_set_to_prior_draw_shape(NoAttrs, CanonPriors(pool.classes[e]))
                       ELSE NoAttrs]
        /\ previous_event = [e \in 1..Len(pool.classes) |-> None]
        /\ event_list = [h \in 1..pool.nhist |-> <<>>]
        /\ ret = NoCall

Next ==
    \/ \E h \in Hists, e \in Objects : add_event(h, e)
    \/ \E h \in Hists : serialize(h)
    \/ \E h \in Hists : \E pvec \in PVecs(h) : deserialize(h, pvec)
    \/ \E h \in Hists : logprior(h)
    \/ \E h \in Hists : set_to_prior_draw(h)
    \/ \E h \in Hists, r \in Points, scale \in Scales : rockprops(h, r, scale)
    \/ \E e \in Objects, r \in Points, scale \in Scales : event_rockprops(e, r, scale)

Spec == Init /\ [][Next]_vars

(***************************************************************************)
(* The constructor on its own: one object is built, with priors and        *)
(* keywords of every shape.                                                *)
(***************************************************************************)
CtorDists == {UniGaussianDist(25, 5), UniformDist(100, 200), vMFDist(0, 0, 100)}

CtorNames(c) == Range(_pars(c)) \cup {"bogus"}

\* the priors over one or two names, known or not
PriorTuples(c) ==
    {Prior(ns, dist) : ns \in {<<a>> : a \in CtorNames(c)}
                               \cup {<<a, b>> : a \in CtorNames(c), b \in CtorNames(c)},
                       dist \in CtorDists}

Remove(s, i) == SubSeq(s, 1, i - 1) \o SubSeq(s, i + 1, Len(s))

\* a list of priors with one removed, one repeated, one of another
\* distribution or one of an unknown name
Variants(ps) ==
    {ps}
        \cup {Remove(ps, i) : i \in 1..Len(ps)}
        \cup {Append(ps, ps[i]) : i \in 1..Len(ps)}
        \cup {[ps EXCEPT ![i] = Prior(ps[i].names, dist)] : i \in 1..Len(ps), dist \in CtorDists}
        \cup {[ps EXCEPT ![i] = Prior(<<"bogus">>, ps[i].dist)] : i \in 1..Len(ps)}

\* the lists of priors a constructor of class c is called with: for the
\* classes of one or two parameters every list of up to two priors, for
\* the others the variants of the class's usual list
CtorPriors(c) ==
    IF Len(_pars(c)) <= 2
    THEN {<<>>} \cup {<<p>> : p \in PriorTuples(c)}
                \cup {<<p, q>> : p \in PriorTuples(c), q \in PriorTuples(c)}
    ELSE Variants(CanonPriors(c))

\* no keyword, or one keyword
CtorKwargs(c) == {<<>>} \cup {<<[key |-> a, val |-> 30]>> : a \in CtorNames(c)}

InitCtor ==
    /\ cls = <<"absent">>
    /\ priors = << <<>> >>
    /\ pars = <<NoAttrs>>
    /\ shape = <<NoAttrs>>
    /\ previous_event = <<None>>
    /\ event_list = <<>>
    /\ ret = NoCall

\* one constructor call per behaviour
NextCtor ==
    /\ ret = NoCall
    /\ \E c \in EventClasses : \E ps \in CtorPriors(c), kwargs \in CtorKwargs(c) :
           construct(c, ps, kwargs)

SpecCtor == InitCtor /\ [][NextCtor]_vars

(***************************************************************************)
(* soft_if_then on its own: the arrays of a call are drawn from small sets *)
(* of floats.                                                              *)
(***************************************************************************)
SoftD == -2..2
SoftY == {RInt(0), RInt(3), RInt(1023), RInt(1026)}
SoftH == {2, 4}

call_soft_if_then(d, y0, y1, h) ==
    /\ ret' = Call("soft_if_then", "ok", None, None,
                   [d |-> d, y0 |-> y0, y1 |-> y1, h |-> h], soft_if_then(d, y0, y1, h))
    /\ UNCHANGED <<cls, priors, pars, shape, previous_event, event_list>>

InitSoft ==
    /\ cls = <<>>
    /\ priors = <<>>
    /\ pars = <<>>
    /\ shape = <<>>
    /\ previous_event = <<>>
    /\ event_list = <<>>
    /\ ret = NoCall

\* one call per behaviour
NextSoft ==
    /\ ret = NoCall
    /\ \E d \in [1..2 -> SoftD], y0 \in [1..2 -> SoftY], y1 \in [1..2 -> SoftY], h \in SoftH :
           call_soft_if_then(d, y0, y1, h)

SpecSoft == InitSoft /\ [][NextSoft]_vars

(***************************************************************************)
(* The claims.                                                             *)
(***************************************************************************)
Last(s) == s[Len(s)]
Total(h) == SeqSum([k \in 1..Len(event_list[h]) |-> Npars(event_list[h][k])])
Occurrences(e) ==
    SeqSum([h \in 1..Cardinality(Hists) |-> Count(event_list[h], e)])

\* C1: add_event of a BasementEvent to a non-empty history fails and leaves
\* the chain as it was, so no event at index >= 1 of a chain is a
\* BasementEvent.
C1_NoLaterBasement ==
    /\ (ret.op = "add_event" /\ cls[ret.e] = "BasementEvent"
            /\ ret.status = "ok") => Len(event_list[ret.h]) = 1
    /\ \A h \in Hists : \A i \in 2..Len(event_list[h]) :
           cls[event_list[h][i]] # "BasementEvent"

\* C2: add_event on an empty history fails for every event that is no
\* BasementEvent, the history stays empty and no back-reference changes;
\* so the first event of every non-empty history is a BasementEvent.
C2_EmptyRejectsNonBasement ==
    [][/\ (ret'.op = "add_event" /\ event_list[ret'.h] = <<>>
              /\ cls[ret'.e] # "BasementEvent")
          => (ret'.status = "AssertionError" /\ event_list' = event_list
                 /\ previous_event' = previous_event)
       /\ \A h \in DOMAIN event_list' :
              event_list'[h] # <<>> => cls'[event_list'[h][1]] = "BasementEvent"]_vars

\* a StratLayerEvent that was never linked is refused by an empty history
C2_Witness ==
    /\ ret.op = "add_event" /\ ret.status = "AssertionError"
    /\ event_list[ret.h] = <<>>
    /\ cls[ret.e] = "StratLayerEvent" /\ previous_event[ret.e] = None

\* C3: deserialize(pvec) fails with a length-mismatch error whenever
\* len(pvec) differs from the sum of Npars over the chain, too short or too
\* long.
C3_LengthMismatchFails ==
    (ret.op = "deserialize" /\ Len(ret.arg) # Total(ret.h)) => ret.status # "ok"

\* a chain as the data model has it: the first event a BasementEvent
\* without predecessor, every later event linked to the one before it
LinksOK(h) ==
    event_list[h] # <<>> =>
        /\ previous_event[event_list[h][1]] = None
        /\ \A i \in 2..Len(event_list[h]) :
               previous_event[event_list[h][i]] = event_list[h][i - 1]

ValidChain(h) ==
    /\ event_list[h] # <<>>
    /\ cls[event_list[h][1]] = "BasementEvent"
    /\ LinksOK(h)

\* the index in the flat vector before the first parameter of event k
Offset(h, k) == SeqSum([j \in 1..(k - 1) |-> Npars(event_list[h][j])])

\* after deserialize(v), v of the chain's total length, serialize() returns
\* v and parameter i of event k holds the entry i of the k-th chunk
WrittenInOrder ==
    (ret.op = "deserialize" /\ ValidChain(ret.h) /\ Len(ret.arg) = Total(ret.h))
    => /\ GeoHistory_serialize(ret.h) = Ok(ret.arg)
       /\ \A k \in 1..Len(event_list[ret.h]) :
              \A i \in 1..Npars(event_list[ret.h][k]) :
                  pars[event_list[ret.h][k]][_pars(cls[event_list[ret.h][k]])[i]]
                      = ret.arg[Offset(ret.h, k) + i]

\* C4: on a valid chain deserialize(serialize()) leaves every parameter as
\* it was; and after deserialize(v), v of the chain's total length,
\* serialize() returns v, parameter i of event k holding the entry i of the
\* k-th chunk.
C4_RoundTrip ==
    [][/\ (ret'.op = "deserialize" /\ ValidChain(ret'.h)
              /\ GeoHistory_serialize(ret'.h) = Ok(ret'.arg))
          => pars' = pars
       /\ WrittenInOrder']_vars

\* a vector of the right length with a value no prior draws was written
\* to a valid chain of two or more events
C4_Witness ==
    /\ ret.op = "deserialize" /\ ValidChain(ret.h)
    /\ Len(event_list[ret.h]) >= 2
    /\ Len(ret.arg) = Total(ret.h)
    /\ \E i \in 1..Len(ret.arg) : ret.arg[i] = 300
    /\ GeoHistory_serialize(ret.h) = Ok(ret.arg)

AppendedOnce == \A e \in Objects : Occurrences(e) <= 1

\* the chain from its last event down to its last BasementEvent
RECURSIVE DownToBasement(_)
DownToBasement(list) ==
    IF list = <<>> THEN <<>>
    ELSE IF cls[Last(list)] = "BasementEvent" THEN <<Last(list)>>
    ELSE <<Last(list)>> \o DownToBasement(SubSeq(list, 1, Len(list) - 1))

PriorsValid(c, ps) ==
    /\ \A i, j \in 1..Len(ps) : i # j => Range(ps[i].names) \cap Range(ps[j].names) = {}
    /\ UNION {Range(ps[i].names) : i \in 1..Len(ps)} = Range(_pars(c))
    /\ \A i \in 1..Len(ps) :
           /\ Cardinality(Range(ps[i].names)) = Len(ps[i].names)
           /\ Len(ps[i].names) = Ndim(ps[i].dist)

CtorValueErrors == {"ValueError: not an attribute", "ValueError: dimensional",
                    "ValueError: exactly one prior"}

\* C6: construction succeeds if and only if the priors' subsets are pairwise
\* disjoint, cover the declared parameters exactly and match their
\* distributions' dimensions; otherwise it raises ValueError for an unknown
\* name, an uncovered or doubly covered parameter or a dimension mismatch.
C6_CtorIffPriorsValid ==
    ret.op = "construct" =>
        /\ ret.status = "ok" <=> PriorsValid(ret.arg.cls, ret.arg.priors)
        /\ ret.status # "ok" => ret.status \in CtorValueErrors

\* without keywords the constructor accepts the valid priors and no others
CtorWithoutKeywords ==
    (ret.op = "construct" /\ ret.arg.kwargs = <<>>) =>
        /\ ret.status = "ok" <=> PriorsValid(ret.arg.cls, ret.arg.priors)
        /\ ret.status # "ok" => ret.status \in CtorValueErrors

\* C7: construction with valid priors and a keyword naming a declared
\* parameter succeeds, and the parameter holds the keyword's value.
C7_KeywordOverrides ==
    (ret.op = "construct" /\ PriorsValid(ret.arg.cls, ret.arg.priors)
        /\ Len(ret.arg.kwargs) = 1
        /\ ret.arg.kwargs[1].key \in Range(_pars(ret.arg.cls)))
    => /\ ret.status = "ok"
       /\ pars[ret.e][ret.arg.kwargs[1].key] = ret.arg.kwargs[1].val

\* the pairs (k, j): prior j of the event at index k of history h
PriorTerms(h) ==
    {<<k, j>> : k \in 1..Len(event_list[h]), j \in 1..5} \cap
    UNION {{<<k, j>> : j \in 1..Len(priors[event_list[h][k]])} : k \in 1..Len(event_list[h])}

TermArgs(h, t) ==
    LET e == event_list[h][t[1]]
        p == priors[e][t[2]]
    IN  [i \in 1..Len(p.names) |-> pars[e][p.names[i]]]

\* the support of a prior: the centred interval of a UniformDist, everything
\* for the others
InSupport(dist, args) ==
    dist.kind = "UniformDist" =>
        (2 * dist.a - dist.b <= 2 * args[1] /\ 2 * args[1] <= 2 * dist.a + dist.b)

RECURSIVE SumTerms(_, _)
SumTerms(h, ts) ==
    IF ts = {} THEN 0
    ELSE LET t == CHOOSE x \in ts : TRUE
         IN  Dist_call(priors[event_list[h][t[1]]][t[2]].dist, TermArgs(h, t)).val
                 + SumTerms(h, ts \ {t})

\* C8: logprior() returns the sum, over the events and each event's priors,
\* of the prior log-density at the current parameter values; with a
\* parameter outside its prior's support it returns -inf, and raises
\* nothing.
C8_LogPriorSum ==
    ret.op = "logprior" =>
        /\ ret.status = "ok"
        /\ ret.val = IF \E t \in PriorTerms(ret.h) :
                            ~InSupport(priors[event_list[ret.h][t[1]]][t[2]].dist, TermArgs(ret.h, t))
                     THEN NegInf
                     ELSE Fin(SumTerms(ret.h, PriorTerms(ret.h)))

\* logprior returned -inf for a chain of two events or more
C8_Witness ==
    /\ ret.op = "logprior" /\ ret.val = NegInf
    /\ Len(event_list[ret.h]) >= 2

\* C9: rockprops of a StratLayerEvent, PlanarFaultEvent or FoldEvent whose
\* previous_event was never assigned fails on its assertion, before any
\* value is computed; rockprops of a BasementEvent succeeds with or without
\* a predecessor.
C9_RockpropsNeedsPredecessor ==
    ret.op = "event_rockprops" =>
        /\ (cls[ret.e] \in {"StratLayerEvent", "PlanarFaultEvent", "FoldEvent"}
               /\ previous_event[ret.e] = None)
              => (ret.status = "AssertionError" /\ ret.val = <<>>)
        /\ cls[ret.e] = "BasementEvent"
              => (ret.status = "ok" /\ Len(ret.val) = Len(ret.arg[1]))

\* rockprops was called on a FoldEvent that no history holds
C9_Witness ==
    /\ ret.op = "event_rockprops" /\ cls[ret.e] = "FoldEvent"
    /\ previous_event[ret.e] = None /\ ret.status = "AssertionError"

RMin(a, b) == IF RLeq(a, b) THEN a ELSE b
RMax(a, b) == IF RLeq(a, b) THEN b ELSE a

\* C10: for h > 0 soft_if_then returns exactly y0 where d <= -h/2, exactly
\* y1 where d >= h/2, 0.5*(y0+y1) where d = 0, and everywhere a value
\* within [min(y0,y1), max(y0,y1)] that is monotone in d.
C10_SoftIfThen ==
    ret.op = "soft_if_then" =>
        LET d == ret.arg.d
            y0 == ret.arg.y0
            y1 == ret.arg.y1
            h == ret.arg.h
        IN  /\ \A i \in 1..Len(d) :
                   /\ 2 * d[i] <= -h => ret.val[i] = y0[i]
                   /\ 2 * d[i] >= h => ret.val[i] = y1[i]
                   /\ d[i] = 0 => ret.val[i] = FMul(RHalf, FAdd(y0[i], y1[i]))
                   /\ RLeq(RMin(y0[i], y1[i]), ret.val[i])
                   /\ RLeq(ret.val[i], RMax(y0[i], y1[i]))
            /\ \A i, j \in 1..Len(d) :
                   (d[i] <= d[j] /\ y0[i] = y0[j] /\ y1[i] = y1[j])
                   => /\ RLeq(y0[i], y1[i]) => RLeq(ret.val[i], ret.val[j])
                      /\ RLeq(y1[i], y0[i]) => RLeq(ret.val[j], ret.val[i])

\* the chain [Basement, StratigraphicLayer] of the end-to-end scenario, the
\* densities in tenths: 3.0 is 30 and 2.5 is 25
Scenario(h) ==
    /\ Len(event_list[h]) = 2
    /\ cls[event_list[h][1]] = "BasementEvent"
    /\ cls[event_list[h][2]] = "StratLayerEvent"
    /\ previous_event[event_list[h][2]] = event_list[h][1]
    /\ pars[event_list[h][1]]["density"] = 30
    /\ pars[event_list[h][2]]["thickness"] = 100
    /\ pars[event_list[h][2]]["density"] = 25

ScenarioCall ==
    /\ ret.op = "rockprops" /\ Scenario(ret.h)
    /\ ret.arg[2] = 10
    /\ SubSeq(ret.arg[1], 1, 3) = << <<0, 0, -200>>, <<0, 0, 0>>, <<0, 0, 200>> >>

\* C11: for the chain [Basement with density 3.0, StratigraphicLayer with
\* thickness 100 and density 2.5] rockprops at (0,0,-200), (0,0,0),
\* (0,0,200) with scale 10 yields the densities [2.5, 2.5, 3.0].
C11_ScenarioDensities ==
    ScenarioCall =>
        /\ ret.status = "ok"
        /\ SubSeq(ret.val, 1, 3) = <<RInt(25), RInt(25), RInt(30)>>

\* what the scenario yields: the basement's density at the lowest point,
\* the layer's at the two others
ScenarioAsComputed ==
    ScenarioCall =>
        /\ ret.status = "ok"
        /\ SubSeq(ret.val, 1, 3) = <<RInt(30), RInt(25), RInt(25)>>

\* the event a rockprops call entered first
CalledEvent == IF ret.op = "rockprops" THEN Last(event_list[ret.h]) ELSE ret.e

\* rockprops was called, on a history or on an event, and the event it
\* entered is a PlanarFaultEvent with s = 0 and a predecessor
ZeroSlipCall ==
    /\ ret.op \in {"rockprops", "event_rockprops"}
    /\ ret.op = "rockprops" => event_list[ret.h] # <<>>
    /\ cls[CalledEvent] = "PlanarFaultEvent"
    /\ pars[CalledEvent]["s"] = 0
    /\ previous_event[CalledEvent] # None
    /\ IsGeoEvent(cls[previous_event[CalledEvent]])

\* C12: a PlanarFaultEvent with slip s = 0 returns from rockprops, at every
\* point, exactly what its predecessor's rockprops returns there, whatever
\* the predecessor chain, the azimuth and the anchor.
C12_ZeroSlipFault ==
    ZeroSlipCall =>
        LET g == GeoEvent_rockprops(previous_event[CalledEvent], ret.arg[1], ret.arg[2], 2)
        IN  ret.status = g.status /\ ret.val = g.val

\* the signed distances of the points of the call from the fault's plane
FaultDistances ==
    LET e == CalledEvent
        n == sph2xyz(pars[e]["nth"], pars[e]["nph"])
        r0 == <<pars[e]["x0"], pars[e]["y0"], 0>>
    IN  [i \in 1..Len(ret.arg[1]) |-> Dot(VSub(ret.arg[1][i], r0), n)]

\* a fault with zero slip over a basement and a layer returned a field that
\* is not uniform, for points on the plane and points farther than h/2
C12_Witness ==
    /\ ZeroSlipCall /\ ret.op = "rockprops" /\ ret.status = "ok"
    /\ Len(event_list[ret.h]) = 3 /\ ValidChain(ret.h)
    /\ \E i, j \in 1..Len(ret.val) : ret.val[i] # ret.val[j]
    /\ \E i \in 1..Len(ret.val) : FaultDistances[i] = 0
    /\ \E i \in 1..Len(ret.val) : 2 * Abs(FaultDistances[i]) > ret.arg[2]

\* C13: serialize, logprior and rockprops leave the chains, the
\* previous_event links and the parameter values as they were; a parameter
\* value changes only in deserialize or set_to_prior_draw, and a chain or a
\* link only in add_event.
C13_Frame ==
    [][/\ ret'.op \in {"serialize", "logprior", "rockprops", "event_rockprops"}
          => (event_list' = event_list /\ previous_event' = previous_event
                 /\ pars' = pars)
       /\ pars' # pars => ret'.op \in {"deserialize", "set_to_prior_draw"}
       /\ (event_list' # event_list \/ previous_event' # previous_event)
          => ret'.op = "add_event"]_vars

\* rockprops returned for a chain whose layer holds a thickness that only
\* deserialize writes
C13_Witness ==
    /\ ret.op = "rockprops" /\ ret.status = "ok"
    /\ ValidChain(ret.h) /\ Len(event_list[ret.h]) >= 2
    /\ cls[Last(event_list[ret.h])] = "StratLayerEvent"
    /\ pars[Last(event_list[ret.h])]["thickness"] = 300

\* C14: in every state of a valid chain every declared parameter of every
\* event holds a scalar, and serialize() returns a flat vector of sum(Npars)
\* scalars, in chain order and in the order of the declared names; also
\* for the parameters drawn from a vMFDist.
C14_FlatScalars ==
    \A h \in Hists :
        ValidChain(h) =>
            /\ \A k \in 1..Len(event_list[h]) :
                   \A i \in 1..Npars(event_list[h][k]) :
                       shape[event_list[h][k]][_pars(cls[event_list[h][k]])[i]] = Scalar
            /\ GeoHistory_serialize_shape(h) = Ok(<<Total(h)>>)
            /\ GeoHistory_serialize(h).status = "ok"
            /\ Len(GeoHistory_serialize(h).val) = Total(h)
            /\ \A k \in 1..Len(event_list[h]) :
                   \A i \in 1..Npars(event_list[h][k]) :
                       GeoHistory_serialize(h).val[Offset(h, k) + i]
                           = pars[event_list[h][k]][_pars(cls[event_list[h][k]])[i]]

\* the parameters of a chain that ends in an event with a vMFDist prior
\* were redrawn, the angles away from the mode
C14_Witness ==
    /\ ret.op = "set_to_prior_draw" /\ ValidChain(ret.h)
    /\ Len(event_list[ret.h]) >= 2
    /\ cls[Last(event_list[ret.h])] \in {"PlanarFaultEvent", "FoldEvent"}
    /\ pars[Last(event_list[ret.h])]["nph"] = 90
    /\ GeoHistory_serialize_shape(ret.h) = Ok(<<Total(ret.h)>>)

\* the arguments prior j of event e is evaluated at
EventArgs(e, j) == [i \in 1..Len(priors[e][j].names) |-> pars[e][priors[e][j].names[i]]]

\* every parameter of event e is a value its prior draws, inside the
\* prior's support, and the event's log-prior is finite
EventDrawn(e) ==
    /\ \A j \in 1..Len(priors[e]) :
           /\ EventArgs(e, j) \in Dist_sample(priors[e][j].dist)
           /\ InSupport(priors[e][j].dist, EventArgs(e, j))
    /\ ~GeoEvent_log_prior(e, priors[e], Fin(0)).neginf

LogPriorFinite(h) == ~GeoHistory_logprior(event_list[h], Fin(0)).neginf

====
